---- MODULE Spec2Model ----
(***************************************************************************)
(* A model of examples/pipelines/providers/                                *)
(* aws_bedrock_manifold_pipeline.py                                        *)
(* (class Pipeline): the request formatter _format_message, the            *)
(* whole-response decoder _extract_output, the streaming generator         *)
(* _stream_response and the entry point pipe.                              *)
(*                                                                         *)
(* A Python str is the sequence of its code points and a bytes object the  *)
(* sequence of its bytes; Str("...") writes a str literal.  The other      *)
(* Python values are tagged records (PyStr, PyInt, ...); a call's outcome  *)
(* is a record that either carries the returned value or the exception     *)
(* that escaped (Ret / Raise).                                             *)
(***************************************************************************)
EXTENDS Integers, Sequences, FiniteSets, TLC

VARIABLES
    op,            \* which method of Pipeline the caller invokes
    model,         \* model_id / model argument (model_provider for the stream)
    messages,      \* messages argument: sequence of [role, content]
    body,          \* body argument (a dict)
    jsondata,      \* the parsed response document handed to _extract_output
    response,      \* what the transport handed back (pipe), or the response whose
                   \* body is the event source (stream)
    calls,         \* outcomes of the calls made so far, in order
    fetches,       \* what requests.get did in each _format_message call
    gen,           \* state of the generator object _stream_response returned
    taken,         \* events taken from response["body"] so far
    requested,     \* next() calls made by the consumer so far
    deltas,        \* values the generator has yielded, in order
    pc,            \* position inside pipe()
    ret            \* what pipe() returned

vars == <<op, model, messages, body, jsondata, response, calls, fetches,
          gen, taken, requested, deltas, pc, ret>>

(***************************************************************************)
(* Bounds of the model.                                                    *)
(***************************************************************************)
MaxTurns == 2       \* longest message list given to _format_message
MaxPipeTurns == 1   \* longest message list given to pipe
MaxEvents == 3      \* longest event sequence of a stream
MaxParts == 2       \* model identifiers are built from at most this many fragments
MaxCalls == 2       \* _format_message is called this many times on the same arguments

(***************************************************************************)
(* str literals.  The characters a literal of this module may hold, with   *)
(* their code points.                                                      *)
(***************************************************************************)
ord ==
    LET from32 == " !\"#$%&'()*+,-./0123456789:;<=>?@ABCDEFGHIJKLMNOPQRSTUVWXYZ[\\]^_"
        from97 == "abcdefghijklmnopqrstuvwxyz{|}~"
    IN  [c \in {SubSeq(from32, i, i) : i \in 1..Len(from32)} |->
            31 + CHOOSE i \in 1..Len(from32) : SubSeq(from32, i, i) = c]
        @@ [c \in {SubSeq(from97, i, i) : i \in 1..Len(from97)} |->
            96 + CHOOSE i \in 1..Len(from97) : SubSeq(from97, i, i) = c]
        @@ [c \in {"\t", "\n", "\f", "\r"} |->
            CASE c = "\t" -> 9 [] c = "\n" -> 10 [] c = "\f" -> 12 [] c = "\r" -> 13]

\* the concatenation of the sequences parts[1], parts[2], ...
RECURSIVE Concat(_)
Concat(parts) ==
    IF Len(parts) = 0 THEN <<>>
    ELSE IF Len(parts) = 1 THEN parts[1]
    ELSE Concat(SubSeq(parts, 1, Len(parts) \div 2))
         \o Concat(SubSeq(parts, (Len(parts) \div 2) + 1, Len(parts)))

Str(lit) == Concat([i \in 1..Len(lit) |-> <<ord[SubSeq(lit, i, i)]>>])

\* str(n) for an int n
IntStr(n) == Str(ToString(n))

\* n in hexadecimal, width digits (0-9 and a-f)
RECURSIVE Hex(_, _)
Hex(n, width) ==
    IF width = 0 THEN <<>>
    ELSE Hex(n \div 16, width - 1)
         \o <<IF n % 16 < 10 THEN 48 + (n % 16) ELSE 87 + (n % 16)>>

Abs(n) == IF n < 0 THEN -n ELSE n

RECURSIVE Zeros(_)
Zeros(k) == IF k <= 0 THEN <<>> ELSE <<48>> \o Zeros(k - 1)

\* a value the model does not represent: evaluating it stops the evaluation
NotRepresented == CHOOSE v \in {} : TRUE

(***************************************************************************)
(* Python values.                                                          *)
(***************************************************************************)
PyStr(s)   == [t |-> "str",   s |-> s,    n |-> 0, e |-> 0, l |-> <<>>, d |-> <<>>]
PyInt(n)   == [t |-> "int",   s |-> <<>>, n |-> n, e |-> 0, l |-> <<>>, d |-> <<>>]
PyBool(b)  == [t |-> "bool",  s |-> <<>>, n |-> IF b THEN 1 ELSE 0, e |-> 0,
               l |-> <<>>, d |-> <<>>]
PyNone     == [t |-> "NoneType", s |-> <<>>, n |-> 0, e |-> 0, l |-> <<>>, d |-> <<>>]
PyList(l)  == [t |-> "list",  s |-> <<>>, n |-> 0, e |-> 0, l |-> l,    d |-> <<>>]
\* a dict is its items in insertion order: <<key, value>> pairs, the keys str
\* and distinct
PyDict(d)  == [t |-> "dict",  s |-> <<>>, n |-> 0, e |-> 0, l |-> <<>>, d |-> d]

\* A finite float other than -0.0 is n * 10^e with n not a multiple of 10
\* (0.0 is n = 0, e = 0).  The floats that are not of this form hold their
\* repr in s.
RECURSIVE Decimal(_, _)
Decimal(n, e) ==
    IF n = 0 THEN [t |-> "float", s |-> <<>>, n |-> 0, e |-> 0, l |-> <<>>, d |-> <<>>]
    ELSE IF n % 10 = 0 THEN Decimal(n \div 10, e + 1)
    ELSE [t |-> "float", s |-> <<>>, n |-> n, e |-> e, l |-> <<>>, d |-> <<>>]
\* a float given in tenths (0.5 is PyFloat(5))
PyFloat(n) == Decimal(n, -1)
NaN         == [Decimal(0, 0) EXCEPT !.s = Str("nan")]
PosInfinity == [Decimal(0, 0) EXCEPT !.s = Str("inf")]
NegInfinity == [Decimal(0, 0) EXCEPT !.s = Str("-inf")]
NegZero     == [Decimal(0, 0) EXCEPT !.s = Str("-0.0")]

Ret(v)        == [exc |-> "",  msg |-> <<>>, v |-> v]
Raise(e, msg) == [exc |-> e,   msg |-> msg,  v |-> PyNone]
Raised(r)     == r.exc # ""

\* repr(x) for a float x: the shortest decimal text, in fixed notation when
\* the decimal point sits at -4 < decpt <= 16, else in exponent notation
float_repr(v) ==
    IF v.s # <<>> THEN v.s
    ELSE IF v.n = 0 THEN Str("0.0")
    ELSE LET digits == IntStr(Abs(v.n))
             k      == Len(IntStr(Abs(v.n)))
             decpt  == Len(IntStr(Abs(v.n))) + v.e
         IN  (IF v.n < 0 THEN Str("-") ELSE <<>>)
             \o (IF decpt > -4 /\ decpt <= 16
                 THEN IF decpt <= 0 THEN Str("0.") \o Zeros(-decpt) \o digits
                      ELSE IF decpt >= k THEN digits \o Zeros(decpt - k) \o Str(".0")
                      ELSE SubSeq(digits, 1, decpt) \o Str(".")
                           \o SubSeq(digits, decpt + 1, k)
                 ELSE <<digits[1]>>
                      \o (IF k > 1 THEN Str(".") \o SubSeq(digits, 2, k) ELSE <<>>)
                      \o Str("e") \o (IF decpt - 1 < 0 THEN Str("-") ELSE Str("+"))
                      \o (IF Abs(decpt - 1) < 10 THEN Str("0") ELSE <<>>)
                      \o IntStr(Abs(decpt - 1)))

\* is the character of code c < 256 printable (str.isprintable)?
IsPrintable(c) ==
    IF c < 128 THEN c >= 32 /\ c <= 126
    ELSE IF c < 256 THEN c >= 161 /\ c # 173
    ELSE NotRepresented

\* repr(s) for a str s
ReprChar(c, quote) ==
    IF c = quote \/ c = 92 THEN <<92, c>>
    ELSE IF c = 9  THEN Str("\\t")
    ELSE IF c = 10 THEN Str("\\n")
    ELSE IF c = 13 THEN Str("\\r")
    ELSE IF IsPrintable(c) THEN <<c>>
    ELSE Str("\\x") \o Hex(c, 2)
str_repr(s) ==
    LET quote == IF (\E i \in 1..Len(s) : s[i] = 39) /\ ~(\E i \in 1..Len(s) : s[i] = 34)
                 THEN 34 ELSE 39
    IN  <<quote>> \o Concat([i \in 1..Len(s) |-> ReprChar(s[i], quote)]) \o <<quote>>

HasKey(v, k) == \E i \in 1..Len(v.d) : v.d[i][1] = k
Lookup(v, k) == v.d[CHOOSE i \in 1..Len(v.d) : v.d[i][1] = k][2]

\* v[k] for a str key k
GetItemKey(v, k) ==
    CASE v.t = "dict" -> IF HasKey(v, k) THEN Ret(Lookup(v, k))
                         ELSE Raise("KeyError", str_repr(k))
      [] v.t = "list" -> Raise("TypeError",
                               Str("list indices must be integers or slices, not str"))
      [] v.t = "str"  -> Raise("TypeError", Str("string indices must be integers, not 'str'"))
      [] OTHER        -> Raise("TypeError",
                               Str("'" \o v.t \o "' object is not subscriptable"))

\* v[0]
GetItem0(v) ==
    CASE v.t = "list" -> IF Len(v.l) > 0 THEN Ret(v.l[1])
                         ELSE Raise("IndexError", Str("list index out of range"))
      [] v.t = "str"  -> IF Len(v.s) > 0 THEN Ret(PyStr(<<v.s[1]>>))
                         ELSE Raise("IndexError", Str("string index out of range"))
      [] v.t = "dict" -> Raise("KeyError", Str("0"))
      [] OTHER        -> Raise("TypeError",
                               Str("'" \o v.t \o "' object is not subscriptable"))

\* v.get(k, default)
DictGet(v, k, default) ==
    IF v.t = "dict" THEN Ret(IF HasKey(v, k) THEN Lookup(v, k) ELSE default)
    ELSE Raise("AttributeError", Str("'" \o v.t \o "' object has no attribute 'get'"))

\* bool(v)
Truthy(v) ==
    CASE v.t = "str"  -> v.s # <<>>
      [] v.t = "list" -> Len(v.l) > 0
      [] v.t = "dict" -> Len(v.d) > 0
      [] v.t = "NoneType" -> FALSE
      [] v.t = "float" -> IF v.s # <<>> THEN v # NegZero ELSE v.n # 0
      [] OTHER        -> v.n # 0

\* sub in s, for two str
Contains(sub, s) ==
    \E i \in 1..(Len(s) - Len(sub) + 1) : SubSeq(s, i, i + Len(sub) - 1) = sub

(***************************************************************************)
(* json.dumps with its defaults (ensure_ascii, separators ", " and ": "),  *)
(* and base64.b64encode.                                                   *)
(***************************************************************************)
\* how the encoder writes the character of code point c inside a string
EscapeChar(c) ==
    IF c = 34 THEN Str("\\\"")
    ELSE IF c = 92 THEN Str("\\\\")
    ELSE IF c = 10 THEN Str("\\n")
    ELSE IF c = 13 THEN Str("\\r")
    ELSE IF c = 9  THEN Str("\\t")
    ELSE IF c = 12 THEN Str("\\f")
    ELSE IF c = 8  THEN Str("\\b")
    ELSE IF c >= 32 /\ c <= 126 THEN <<c>>
    ELSE IF c < 65536 THEN Str("\\u") \o Hex(c, 4)
    ELSE Str("\\u") \o Hex(55296 + ((c - 65536) \div 1024), 4)
         \o Str("\\u") \o Hex(56320 + ((c - 65536) % 1024), 4)

JsonEscape(s) == Concat([i \in 1..Len(s) |-> EscapeChar(s[i])])

RECURSIVE json_dumps(_)
JsonItems(l) ==
    Concat([i \in 1..Len(l) |->
               json_dumps(l[i]) \o (IF i < Len(l) THEN Str(", ") ELSE <<>>)])
JsonPairs(d) ==
    Concat([i \in 1..Len(d) |->
               Str("\"") \o JsonEscape(d[i][1]) \o Str("\": ") \o json_dumps(d[i][2])
               \o (IF i < Len(d) THEN Str(", ") ELSE <<>>)])
json_dumps(v) ==
    CASE v.t = "str"      -> Str("\"") \o JsonEscape(v.s) \o Str("\"")
      [] v.t = "int"      -> IntStr(v.n)
      [] v.t = "bool"     -> IF v.n = 1 THEN Str("true") ELSE Str("false")
      [] v.t = "float"    -> IF v = NaN THEN Str("NaN")
                             ELSE IF v = PosInfinity THEN Str("Infinity")
                             ELSE IF v = NegInfinity THEN Str("-Infinity")
                             ELSE float_repr(v)
      [] v.t = "NoneType" -> Str("null")
      [] v.t = "list"     -> Str("[") \o JsonItems(v.l) \o Str("]")
      [] v.t = "dict"     -> Str("{") \o JsonPairs(v.d) \o Str("}")

\* the character of the base64 alphabet (A-Z, a-z, 0-9, +, /) for the value i
B64Char(i) ==
    IF i < 26 THEN 65 + i
    ELSE IF i < 52 THEN 71 + i
    ELSE IF i < 62 THEN i - 4
    ELSE IF i = 62 THEN 43 ELSE 47

\* the four characters that encode a group of one to three bytes
B64Group(group) ==
    LET b1 == group[1]
        b2 == IF Len(group) > 1 THEN group[2] ELSE 0
        b3 == IF Len(group) > 2 THEN group[3] ELSE 0
    IN  <<B64Char(b1 \div 4),
          B64Char((b1 % 4) * 16 + (b2 \div 16)),
          IF Len(group) > 1 THEN B64Char((b2 % 16) * 4 + (b3 \div 64)) ELSE 61,
          IF Len(group) > 2 THEN B64Char(b3 % 64) ELSE 61>>

\* base64.b64encode(bytes).decode('utf-8')
b64encode(bytes) ==
    Concat([g \in 1..((Len(bytes) + 2) \div 3) |->
               B64Group(SubSeq(bytes, 3 * g - 2,
                               IF 3 * g < Len(bytes) THEN 3 * g ELSE Len(bytes)))])

(***************************************************************************)
(* The codecs: bytes.decode("utf-8"), the decoding json.loads applies to   *)
(* bytes (the encoding it detects, errors="surrogatepass"), and            *)
(* str.encode("utf-8").                                                    *)
(***************************************************************************)
\* str(e) of a UnicodeDecodeError over the bytes [start, end) of b
DecodeErrorText(encoding, b, start, end, reason) ==
    Str("'" \o encoding \o "' codec can't decode ")
    \o (IF end = start + 1
        THEN Str("byte 0x") \o Hex(b[start + 1], 2) \o Str(" in position ") \o IntStr(start)
        ELSE Str("bytes in position ") \o IntStr(start) \o Str("-") \o IntStr(end - 1))
    \o Str(": ") \o Str(reason)

IsContinuation(byte) == byte >= 128 /\ byte <= 191
Decoded(cp, size)    == [ok |-> TRUE, cp |-> cp, size |-> size, reason |-> ""]
Undecodable(size, reason) == [ok |-> FALSE, cp |-> 0, size |-> size, reason |-> reason]

\* the UTF-8 decoder on the character that starts at index i (from 0) of b:
\* its code point and length, or the length and kind of the error
Utf8Step(b, i) ==
    LET left == Len(b) - i
        c1 == b[i + 1]
        c2 == b[i + 2]
        c3 == b[i + 3]
        c4 == b[i + 4]
    IN
    IF c1 < 128 THEN Decoded(c1, 1)
    ELSE IF c1 < 194 THEN Undecodable(1, "invalid start byte")
    ELSE IF c1 < 224 THEN
        IF left < 2 THEN Undecodable(left, "unexpected end of data")
        ELSE IF ~IsContinuation(c2) THEN Undecodable(1, "invalid continuation byte")
        ELSE Decoded((c1 - 192) * 64 + (c2 - 128), 2)
    ELSE IF c1 < 240 THEN
        IF left < 2 THEN Undecodable(left, "unexpected end of data")
        ELSE IF ~IsContinuation(c2) \/ (c1 = 224 /\ c2 < 160) \/ (c1 = 237 /\ c2 >= 160)
             THEN Undecodable(1, "invalid continuation byte")
        ELSE IF left < 3 THEN Undecodable(left, "unexpected end of data")
        ELSE IF ~IsContinuation(c3) THEN Undecodable(2, "invalid continuation byte")
        ELSE Decoded((c1 - 224) * 4096 + (c2 - 128) * 64 + (c3 - 128), 3)
    ELSE IF c1 < 245 THEN
        IF left < 2 THEN Undecodable(left, "unexpected end of data")
        ELSE IF ~IsContinuation(c2) \/ (c1 = 240 /\ c2 < 144) \/ (c1 = 244 /\ c2 >= 144)
             THEN Undecodable(1, "invalid continuation byte")
        ELSE IF left < 3 THEN Undecodable(left, "unexpected end of data")
        ELSE IF ~IsContinuation(c3) THEN Undecodable(2, "invalid continuation byte")
        ELSE IF left < 4 THEN Undecodable(left, "unexpected end of data")
        ELSE IF ~IsContinuation(c4) THEN Undecodable(3, "invalid continuation byte")
        ELSE Decoded((c1 - 240) * 262144 + (c2 - 128) * 4096 + (c3 - 128) * 64
                     + (c4 - 128), 4)
    ELSE Undecodable(1, "invalid start byte")

IsHighSurrogate(cp) == cp >= 55296 /\ cp <= 56319
IsLowSurrogate(cp)  == cp >= 56320 /\ cp <= 57343
JoinSurrogates(hi, lo) == 65536 + (hi - 55296) * 1024 + (lo - 56320)

\* A decoder is a loop over the input; its state is the index it reads at, the
\* characters it has produced and the text of the error that stopped it.
Decoding(i, acc)   == [i |-> i, acc |-> acc, error |-> <<>>]
Stopped(st, error) == [i |-> st.i, acc |-> st.acc, error |-> error]

\* the UTF-8 decoder after the step r at its index; the error handler
\* "surrogatepass" takes the three bytes that encode a surrogate for it
Utf8Taken(b, st, errors, r) ==
    IF r.ok THEN Decoding(st.i + r.size, Append(st.acc, r.cp))
    ELSE IF /\ errors = "surrogatepass"
            /\ Len(b) - st.i >= 3
            /\ b[st.i + 1] = 237 /\ b[st.i + 2] >= 160 /\ b[st.i + 2] <= 191
            /\ IsContinuation(b[st.i + 3])
    THEN Decoding(st.i + 3,
                  Append(st.acc, 53248 + (b[st.i + 2] - 128) * 64 + (b[st.i + 3] - 128)))
    ELSE Stopped(st, DecodeErrorText("utf-8", b, st.i, st.i + r.size, r.reason))

\* the 16-bit unit at index i of b
Unit16(b, i, little) ==
    IF little THEN b[i + 2] * 256 + b[i + 1] ELSE b[i + 1] * 256 + b[i + 2]

\* the UTF-16 decoder at its index, errors "surrogatepass"
Utf16Turn(b, st, little) ==
    LET u == Unit16(b, st.i, little) IN
    IF Len(b) - st.i < 2
    THEN Stopped(st, DecodeErrorText(IF little THEN "utf-16-le" ELSE "utf-16-be",
                                     b, st.i, Len(b), "truncated data"))
    ELSE IF IsHighSurrogate(u) /\ Len(b) - st.i >= 4
            /\ IsLowSurrogate(Unit16(b, st.i + 2, little))
    THEN Decoding(st.i + 4, Append(st.acc, JoinSurrogates(u, Unit16(b, st.i + 2, little))))
    ELSE Decoding(st.i + 2, Append(st.acc, u))

\* the UTF-32 decoder at its index, errors "surrogatepass"
Utf32Turn(b, st, little) ==
    IF Len(b) - st.i < 4
    THEN Stopped(st, DecodeErrorText(IF little THEN "utf-32-le" ELSE "utf-32-be",
                                     b, st.i, Len(b), "truncated data"))
    ELSE LET b3 == IF little THEN b[st.i + 4] ELSE b[st.i + 1]
             b2 == IF little THEN b[st.i + 3] ELSE b[st.i + 2]
             b1 == IF little THEN b[st.i + 2] ELSE b[st.i + 3]
             b0 == IF little THEN b[st.i + 1] ELSE b[st.i + 4]
         IN  IF b3 # 0 \/ b2 > 16
             THEN Stopped(st, DecodeErrorText(IF little THEN "utf-32-le" ELSE "utf-32-be",
                                              b, st.i, st.i + 4,
                                              "code point not in range(0x110000)"))
             ELSE Decoding(st.i + 4, Append(st.acc, b2 * 65536 + b1 * 256 + b0))

\* the byte order mark "utf-8-sig", "utf-16" and "utf-32" take off the front
\* of b, and the byte order a codec reads in (that of the mark for "utf-16"
\* and "utf-32")
MarkLength(encoding) ==
    CASE encoding = "utf-32"    -> 4
      [] encoding = "utf-16"    -> 2
      [] encoding = "utf-8-sig" -> 3
      [] OTHER                  -> 0
LittleEndian(encoding, b) ==
    encoding \in {"utf-16-le", "utf-32-le"}
    \/ (encoding \in {"utf-16", "utf-32"} /\ b[1] = 255)

\* one turn of the decoder of an encoding on the bytes b, read in the byte
\* order little
DecoderTurn(b, st, encoding, little, errors) ==
    IF st.error # <<>> \/ st.i >= Len(b) THEN st
    ELSE CASE encoding \in {"utf-32", "utf-32-be", "utf-32-le"} -> Utf32Turn(b, st, little)
           [] encoding \in {"utf-16", "utf-16-be", "utf-16-le"} -> Utf16Turn(b, st, little)
           [] OTHER -> Utf8Taken(b, st, errors, Utf8Step(b, st.i))

\* the loop, run for the given number of turns
RECURSIVE DecoderTurns(_, _, _, _, _, _)
DecoderTurns(b, st, encoding, little, errors, turns) ==
    IF turns <= 1 THEN DecoderTurn(b, st, encoding, little, errors)
    ELSE LET half == DecoderTurns(b, st, encoding, little, errors, turns \div 2) IN
         IF half.error # <<>> THEN half
         ELSE DecoderTurns(b, half, encoding, little, errors, turns - (turns \div 2))

\* b.decode(encoding, errors); the UTF-8 decoder of "utf-8-sig" sees the bytes
\* behind the mark only
Decode(b, encoding, errors) ==
    LET st == IF encoding = "utf-8-sig"
              THEN DecoderTurns(SubSeq(b, 4, Len(b)), Decoding(0, <<>>), encoding,
                                FALSE, errors, Len(b))
              ELSE DecoderTurns(b, Decoding(MarkLength(encoding), <<>>), encoding,
                                LittleEndian(encoding, b), errors, Len(b))
    IN  IF st.error # <<>> THEN Raise("UnicodeDecodeError", st.error)
        ELSE Ret(PyStr(st.acc))

StartsWith(b, prefix) == Len(b) >= Len(prefix) /\ SubSeq(b, 1, Len(prefix)) = prefix

\* json.detect_encoding(b)
detect_encoding(b) ==
    IF StartsWith(b, <<0, 0, 254, 255>>) \/ StartsWith(b, <<255, 254, 0, 0>>) THEN "utf-32"
    ELSE IF StartsWith(b, <<254, 255>>) \/ StartsWith(b, <<255, 254>>) THEN "utf-16"
    ELSE IF StartsWith(b, <<239, 187, 191>>) THEN "utf-8-sig"
    ELSE IF Len(b) >= 4 /\ b[1] = 0
         THEN (IF b[2] # 0 THEN "utf-16-be" ELSE "utf-32-be")
    ELSE IF Len(b) >= 4 /\ b[2] = 0
         THEN (IF b[3] # 0 \/ b[4] # 0 THEN "utf-16-le" ELSE "utf-32-le")
    ELSE IF Len(b) = 2 /\ b[1] = 0 THEN "utf-16-be"
    ELSE IF Len(b) = 2 /\ b[2] = 0 THEN "utf-16-le"
    ELSE "utf-8"

\* bytes.decode("utf-8")
bytes_decode(b) == Decode(b, "utf-8", "strict")

\* the UTF-8 bytes of the code point cp, not a surrogate
Utf8Bytes(cp) ==
    IF cp < 128 THEN <<cp>>
    ELSE IF cp < 2048 THEN <<192 + (cp \div 64), 128 + (cp % 64)>>
    ELSE IF cp < 65536
         THEN <<224 + (cp \div 4096), 128 + ((cp \div 64) % 64), 128 + (cp % 64)>>
    ELSE <<240 + (cp \div 262144), 128 + ((cp \div 4096) % 64),
           128 + ((cp \div 64) % 64), 128 + (cp % 64)>>

\* str.encode("utf-8")
str_encode(s) ==
    LET surrogates == {i \in 0..(Len(s) - 1) : s[i + 1] >= 55296 /\ s[i + 1] <= 57343} IN
    IF surrogates = {} THEN Ret(Concat([i \in 1..Len(s) |-> Utf8Bytes(s[i])]))
    ELSE LET start == CHOOSE i \in surrogates : \A j \in surrogates : i <= j
             \* the index after the run of surrogates that starts at start
             end   == CHOOSE j \in (start + 1)..Len(s) :
                          /\ \A k \in start..(j - 1) : k \in surrogates
                          /\ j \notin surrogates
         IN  Raise("UnicodeEncodeError",
                   Str("'utf-8' codec can't encode ")
                   \o (IF end = start + 1
                       THEN Str("character '\\u") \o Hex(s[start + 1], 4)
                            \o Str("' in position ") \o IntStr(start)
                       ELSE Str("characters in position ") \o IntStr(start) \o Str("-")
                            \o IntStr(end - 1))
                   \o Str(": surrogates not allowed"))

(***************************************************************************)
(* json.loads: the scanner and decoder of the json package.  Indexes into  *)
(* the text count from 0, as in the package.                               *)
(***************************************************************************)
Scanned(v, end)     == [err |-> FALSE, v |-> v, end |-> end, msg |-> "", pos |-> 0]
ScanError(msg, pos) == [err |-> TRUE, v |-> PyNone, end |-> 0, msg |-> msg, pos |-> pos]
\* StopIteration(idx) of the scanner, which the decoder reports as this error
ExpectingValue(idx) == ScanError("Expecting value", idx)

IsDigit(c) == c >= 48 /\ c <= 57

\* the first index from idx on at which s does not hold a character of the
\* class, the length of s if there is none
SkipWhile(s, idx, class) ==
    LET others == {j \in idx..(Len(s) - 1) : s[j + 1] \notin class} IN
    IF others = {} THEN (IF idx > Len(s) THEN idx ELSE Len(s))
    ELSE CHOOSE j \in others : \A k \in others : j <= k

SkipWhitespace(s, idx) == SkipWhile(s, idx, {32, 9, 10, 13})
SkipDigits(s, idx)     == SkipWhile(s, idx, 48..57)

\* the value of a hexadecimal digit, -1 for any other character
HexValue(c) ==
    IF c >= 48 /\ c <= 57 THEN c - 48
    ELSE IF c >= 97 /\ c <= 102 THEN c - 87
    ELSE IF c >= 65 /\ c <= 70 THEN c - 55
    ELSE -1

\* the value of the four hexadecimal digits at s[idx : idx + 4], -1 if one of
\* them is not a digit
Hex4Value(s, idx) ==
    LET h1 == HexValue(s[idx + 1])
        h2 == HexValue(s[idx + 2])
        h3 == HexValue(s[idx + 3])
        h4 == HexValue(s[idx + 4])
    IN  IF h1 < 0 \/ h2 < 0 \/ h3 < 0 \/ h4 < 0 THEN -1
        ELSE h1 * 4096 + h2 * 256 + h3 * 16 + h4

\* the character a backslash followed by c stands for, -1 if none
SimpleEscape(c) ==
    CASE c = 34  -> 34
      [] c = 92  -> 92
      [] c = 47  -> 47
      [] c = 98  -> 8
      [] c = 102 -> 12
      [] c = 110 -> 10
      [] c = 114 -> 13
      [] c = 116 -> 9
      [] OTHER   -> -1

\* The scanner of a string is a loop over the characters after the opening
\* quote; its state is the index it reads at, the characters it has decoded
\* and, once it has finished, its result.
Scanning(idx, acc)   == [idx |-> idx, acc |-> acc, out |-> <<>>]
Finished(st, result) == [st EXCEPT !.out = <<result>>]

\* a \uXXXX escape at the scanner's index with the value u: a high surrogate
\* takes the low surrogate of a second escape with it
ScanStringEscaped(s, st, u) ==
    IF u < 0 THEN Finished(st, ScanError("Invalid \\uXXXX escape", st.idx + 1))
    ELSE IF IsHighSurrogate(u) /\ st.idx + 12 < Len(s)
            /\ s[st.idx + 7] = 92 /\ s[st.idx + 8] = 117
    THEN (IF Hex4Value(s, st.idx + 8) < 0
          THEN Finished(st, ScanError("Invalid \\uXXXX escape", st.idx + 7))
          ELSE IF IsLowSurrogate(Hex4Value(s, st.idx + 8))
          THEN Scanning(st.idx + 12,
                        Append(st.acc, JoinSurrogates(u, Hex4Value(s, st.idx + 8))))
          ELSE Scanning(st.idx + 6, Append(st.acc, u)))
    ELSE Scanning(st.idx + 6, Append(st.acc, u))

\* one turn of the loop of scanstring; begin is the index of the opening quote
ScanStringTurn(s, begin, st) ==
    LET idx == st.idx IN
    IF st.out # <<>> THEN st
    ELSE IF idx >= Len(s)
    THEN Finished(st, ScanError("Unterminated string starting at", begin))
    ELSE IF s[idx + 1] = 34 THEN Finished(st, Scanned(PyStr(st.acc), idx + 1))
    ELSE IF s[idx + 1] # 92 THEN
        (IF s[idx + 1] <= 31
         THEN Finished(st, ScanError("Invalid control character at", idx))
         ELSE Scanning(idx + 1, Append(st.acc, s[idx + 1])))
    ELSE IF idx + 1 = Len(s)
    THEN Finished(st, ScanError("Unterminated string starting at", begin))
    ELSE IF s[idx + 2] # 117 THEN
        (IF SimpleEscape(s[idx + 2]) < 0
         THEN Finished(st, ScanError("Invalid \\escape", idx))
         ELSE Scanning(idx + 2, Append(st.acc, SimpleEscape(s[idx + 2]))))
    ELSE IF idx + 6 >= Len(s)
    THEN Finished(st, ScanError("Invalid \\uXXXX escape", idx + 1))
    ELSE ScanStringEscaped(s, st, Hex4Value(s, idx + 2))

RECURSIVE ScanStringTurns(_, _, _, _)
ScanStringTurns(s, begin, st, turns) ==
    IF turns <= 1 THEN ScanStringTurn(s, begin, st)
    ELSE LET half == ScanStringTurns(s, begin, st, turns \div 2) IN
         IF half.out # <<>> THEN half
         ELSE ScanStringTurns(s, begin, half, turns - (turns \div 2))

\* scanstring(s, end): the string whose opening quote is at index end - 1
scanstring(s, end) ==
    ScanStringTurns(s, end - 1, Scanning(end, <<>>), Len(s) - end + 1).out[1]

\* int(digits) for a sequence of decimal digits
RECURSIVE DigitsValue(_)
DigitsValue(digits) ==
    IF digits = <<>> THEN 0
    ELSE DigitsValue(SubSeq(digits, 1, Len(digits) - 1)) * 10
         + (digits[Len(digits)] - 48)

StripLeadingZeros(digits) ==
    SubSeq(digits, SkipWhile(digits, 0, {48}) + 1, Len(digits))

StripTrailingZeros(digits) ==
    LET kept == {i \in 1..Len(digits) : digits[i] # 48} IN
    IF kept = {} THEN <<>>
    ELSE SubSeq(digits, 1, CHOOSE i \in kept : \A j \in kept : j <= i)

\* the first nine digits of a digit sequence, zeros added on the right
Leading9(digits) == DigitsValue(SubSeq(digits \o Zeros(9), 1, 9))

\* the float of the significant digits (no zero at either end) times 10^e;
\* zero and infinity are the values of either sign a number out of range
\* rounds to
FloatOfDigits(zero, infinity, digits, e) ==
    LET decpt == Len(digits) + e IN
    IF decpt > 309 \/ (decpt = 309 /\ Leading9(digits) > 179769313) THEN infinity
    ELSE IF decpt = 309 /\ Leading9(digits) = 179769313 /\ Len(digits) > 9
    THEN NotRepresented
    ELSE IF decpt < -323 THEN zero
    ELSE IF decpt < -307 \/ (decpt = -307 /\ Leading9(digits) < 222507386)
    THEN NotRepresented
    ELSE Decimal((IF zero = NegZero THEN -1 ELSE 1) * DigitsValue(digits), e)

\* the float of the digits all (no zero in front; digits are the same without
\* the zeros behind), of which places stand behind the point, times ten to
\* the exponent written with its digits
FloatOfParts(zero, infinity, all, digits, places, expnegative, exponent) ==
    IF digits = <<>> THEN zero
    ELSE IF Len(exponent) > 6 THEN (IF expnegative THEN zero ELSE infinity)
    ELSE FloatOfDigits(zero, infinity, digits,
                       (IF expnegative THEN -1 ELSE 1) * DigitsValue(exponent)
                       - places + (Len(all) - Len(digits)))

\* float(text) for the text of a JSON number: sign, integer digits, fraction
\* digits, sign and digits of the exponent.  Exact for at most nine
\* significant digits in the range of the normal doubles.
float_of(negative, intpart, fraction, expnegative, expdigits) ==
    FloatOfParts(IF negative THEN NegZero ELSE Decimal(0, 0),
                 IF negative THEN NegInfinity ELSE PosInfinity,
                 StripLeadingZeros(intpart \o fraction),
                 StripTrailingZeros(StripLeadingZeros(intpart \o fraction)),
                 Len(fraction), expnegative, StripLeadingZeros(expdigits))

\* The number that starts at index start of s (_match_number): its digits
\* start at i0, the integer part ends at i1, the fraction, if there is one, at
\* i2, and the digits of the exponent, if there is one, at i4.
HasFraction(s, i1) == i1 + 1 < Len(s) /\ s[i1 + 1] = 46 /\ IsDigit(s[i1 + 2])
ExponentStart(s, i2) ==
    IF i2 + 2 < Len(s) /\ (s[i2 + 2] = 45 \/ s[i2 + 2] = 43) THEN i2 + 2 ELSE i2 + 1

NumberOfParts(s, start, i0, i1, i2, i4) ==
    LET negative    == i0 # start
        hasexponent == /\ i2 + 1 < Len(s) /\ (s[i2 + 1] = 101 \/ s[i2 + 1] = 69)
                       /\ IsDigit(s[i4])
    IN  IF HasFraction(s, i1) \/ hasexponent
        THEN Scanned(float_of(negative, SubSeq(s, i0 + 1, i1),
                              IF HasFraction(s, i1) THEN SubSeq(s, i1 + 2, i2) ELSE <<>>,
                              hasexponent /\ s[i2 + 2] = 45,
                              IF hasexponent
                              THEN SubSeq(s, ExponentStart(s, i2) + 1, i4) ELSE <<>>),
                     IF hasexponent THEN i4 ELSE i2)
        ELSE Scanned(PyInt((IF negative THEN -1 ELSE 1)
                           * DigitsValue(SubSeq(s, i0 + 1, i1))), i2)

NumberAfterInteger(s, start, i0, i1) ==
    LET i2 == IF HasFraction(s, i1) THEN SkipDigits(s, i1 + 2) ELSE i1 IN
    NumberOfParts(s, start, i0, i1, i2, SkipDigits(s, ExponentStart(s, i2)))

match_number(s, start) ==
    LET i0 == IF s[start + 1] = 45 THEN start + 1 ELSE start IN
    IF i0 >= Len(s) \/ ~IsDigit(s[i0 + 1]) THEN ExpectingValue(start)
    ELSE NumberAfterInteger(s, start, i0,
                            IF s[i0 + 1] = 48 THEN i0 + 1 ELSE SkipDigits(s, i0 + 1))

\* does s hold the literal lit at index idx?
Matches(s, idx, lit) ==
    idx + Len(lit) <= Len(s) /\ SubSeq(s, idx + 1, idx + Len(lit)) = lit

\* dict[key] = value on the items of a dict
SetItem(items, key, value) ==
    IF \E i \in 1..Len(items) : items[i][1] = key
    THEN [i \in 1..Len(items) |-> IF items[i][1] = key THEN <<key, value>> ELSE items[i]]
    ELSE Append(items, <<key, value>>)

\* scan_once on a value that is neither an object nor an array
ScanScalar(s, idx) ==
    IF s[idx + 1] = 34 THEN scanstring(s, idx + 1)
    ELSE IF Matches(s, idx, <<110, 117, 108, 108>>) THEN Scanned(PyNone, idx + 4)
    ELSE IF Matches(s, idx, <<116, 114, 117, 101>>) THEN Scanned(PyBool(TRUE), idx + 4)
    ELSE IF Matches(s, idx, <<102, 97, 108, 115, 101>>)
    THEN Scanned(PyBool(FALSE), idx + 5)
    ELSE IF Matches(s, idx, <<78, 97, 78>>) THEN Scanned(NaN, idx + 3)
    ELSE IF Matches(s, idx, <<73, 110, 102, 105, 110, 105, 116, 121>>)
    THEN Scanned(PosInfinity, idx + 8)
    ELSE IF Matches(s, idx, <<45, 73, 110, 102, 105, 110, 105, 116, 121>>)
    THEN Scanned(NegInfinity, idx + 9)
    ELSE match_number(s, idx)

\* scan_once, JSONObject and JSONArray call each other; the calls in progress
\* are the stack below.  An entry is an object or an array that is being
\* read: its members so far and, for an object, the key whose value is being
\* read.  The scanner is a loop over the text; what it does next is its mode:
\* it reads a value ("value"), the key of an object's member ("key"), or it
\* hands the value v it has read to the object or array that holds it
\* ("member").
Scan(mode, idx, v, stack)    ==
    [mode |-> mode, idx |-> idx, v |-> v, stack |-> stack, out |-> <<>>]
Top(st)                      == st.stack[Len(st.stack)]
Others(st)                   == SubSeq(st.stack, 1, Len(st.stack) - 1)
Read(st, r) ==
    IF r.err THEN Finished(st, r) ELSE Scan("member", r.end, r.v, st.stack)

\* s holds "{" or "[" at the scanner's index, and first is the index of what
\* follows it: the value is empty, or the first member of an object
\* (v the empty dict) starts with its key, that of an array with its value
Open(s, st, v, first) ==
    IF first < Len(s) /\ s[first + 1] = (IF v.t = "dict" THEN 125 ELSE 93)
    THEN Scan("member", first + 1, v, st.stack)
    ELSE Scan(IF v.t = "dict" THEN "key" ELSE "value", first, PyNone,
              Append(st.stack, [kind |-> v.t, acc |-> <<>>, key |-> <<>>]))

\* scan_once(s, idx)
ValueTurn(s, st) ==
    IF st.idx >= Len(s) THEN Finished(st, ExpectingValue(st.idx))
    ELSE IF s[st.idx + 1] = 123
    THEN Open(s, st, PyDict(<<>>), SkipWhitespace(s, st.idx + 1))
    ELSE IF s[st.idx + 1] = 91
    THEN Open(s, st, PyList(<<>>), SkipWhitespace(s, st.idx + 1))
    ELSE Read(st, ScanScalar(s, st.idx))

\* JSONObject: the key of a member and the colon after it
KeyRead(s, st, key, colon) ==
    IF key.err THEN Finished(st, key)
    ELSE IF colon >= Len(s) \/ s[colon + 1] # 58
    THEN Finished(st, ScanError("Expecting ':' delimiter", colon))
    ELSE Scan("value", SkipWhitespace(s, colon + 1), PyNone,
              Append(Others(st), [Top(st) EXCEPT !.key = key.v.s]))
KeyTurn(s, st) ==
    IF st.idx >= Len(s) \/ s[st.idx + 1] # 34
    THEN Finished(st, ScanError("Expecting property name enclosed in double quotes",
                                st.idx))
    ELSE KeyRead(s, st, scanstring(s, st.idx + 1),
                 SkipWhitespace(s, scanstring(s, st.idx + 1).end))

\* JSONObject and JSONArray after a member's value: filled is the object or
\* array with the member, next the index of what follows the member
Member(s, st, filled, next) ==
    IF next < Len(s) /\ s[next + 1] = (IF filled.t = "dict" THEN 125 ELSE 93)
    THEN Scan("member", next + 1, filled, Others(st))
    ELSE IF next >= Len(s) \/ s[next + 1] # 44
    THEN Finished(st, ScanError("Expecting ',' delimiter", next))
    ELSE Scan(IF filled.t = "dict" THEN "key" ELSE "value",
              SkipWhitespace(s, next + 1), PyNone,
              Append(Others(st),
                     [Top(st) EXCEPT !.acc = IF filled.t = "dict" THEN filled.d
                                             ELSE filled.l]))
MemberTurn(s, st) ==
    IF st.stack = <<>> THEN Finished(st, Scanned(st.v, st.idx))
    ELSE Member(s, st,
                IF Top(st).kind = "dict"
                THEN PyDict(SetItem(Top(st).acc, Top(st).key, st.v))
                ELSE PyList(Append(Top(st).acc, st.v)),
                SkipWhitespace(s, st.idx))

\* one turn of the scanner
ScanTurn(s, st) ==
    IF st.out # <<>> THEN st
    ELSE CASE st.mode = "value" -> ValueTurn(s, st)
           [] st.mode = "key"   -> KeyTurn(s, st)
           [] OTHER             -> MemberTurn(s, st)

RECURSIVE ScanTurns(_, _, _)
ScanTurns(s, st, turns) ==
    IF turns <= 1 THEN ScanTurn(s, st)
    ELSE LET half == ScanTurns(s, st, turns \div 2) IN
         IF half.out # <<>> THEN half ELSE ScanTurns(s, half, turns - (turns \div 2))

\* scan_once(s, idx): the JSON value that starts at index idx.  Every turn
\* but the last moves on in the text, so Len(s) + 1 turns end the loop.
scan_once(s, idx) == ScanTurns(s, Scan("value", idx, PyNone, <<>>), Len(s) + 1).out[1]

\* raise JSONDecodeError(msg, doc, pos)
JSONDecodeError(msg, doc, pos) ==
    LET newlines == {i \in 1..pos : doc[i] = 10}
        lineno == Cardinality({i \in 1..pos : doc[i] = 10}) + 1
        colno  == IF newlines = {} THEN pos + 1
                  ELSE pos - ((CHOOSE i \in newlines : \A j \in newlines : j <= i) - 1)
    IN  Raise("JSONDecodeError",
              Str(msg) \o Str(": line ") \o IntStr(lineno) \o Str(" column ")
              \o IntStr(colno) \o Str(" (char ") \o IntStr(pos) \o Str(")"))

\* JSONDecoder.decode(s): raw_decode has given r, then nothing but whitespace
\* may follow
RawDecoded(s, r) ==
    IF r.err THEN JSONDecodeError(r.msg, s, r.pos)
    ELSE IF SkipWhitespace(s, r.end) # Len(s)
    THEN JSONDecodeError("Extra data", s, SkipWhitespace(s, r.end))
    ELSE Ret(r.v)
JSONDecoder_decode(s) == RawDecoded(s, scan_once(s, SkipWhitespace(s, 0)))

\* json.loads(s) for a str s
json_loads(s) ==
    IF s # <<>> /\ s[1] = 65279
    THEN JSONDecodeError("Unexpected UTF-8 BOM (decode using utf-8-sig)", s, 0)
    ELSE JSONDecoder_decode(s)

\* json.loads(b) for a bytes b: b.decode(detect_encoding(b), "surrogatepass"),
\* then JSONDecoder.decode
json_loads_bytes(b) ==
    LET text == Decode(b, detect_encoding(b), "surrogatepass") IN
    IF Raised(text) THEN text ELSE JSONDecoder_decode(text.v.s)

(***************************************************************************)
(* Provider selection: the if/elif chains of the formatter, the decoder    *)
(* and the stream.                                                         *)
(***************************************************************************)
FormatFamily(mdl) ==
    IF Contains(Str("amazon"), mdl) THEN "amazon"
    ELSE IF Contains(Str("anthropic"), mdl) THEN "anthropic"
    ELSE IF Contains(Str("ai21"), mdl) THEN "ai21"
    ELSE IF Contains(Str("cohere"), mdl) THEN "cohere"
    ELSE IF Contains(Str("meta"), mdl) THEN "meta"
    ELSE IF Contains(Str("mistral"), mdl) THEN "mistral"
    ELSE "unknown"

\* ExtractFamily with the meta test moved to the front of the chain
ExtractFamilyMetaFirst(mdl) ==
    IF Contains(Str("meta"), mdl) THEN "meta"
    ELSE IF Contains(Str("amazon"), mdl) THEN "amazon"
    ELSE IF Contains(Str("anthropic"), mdl) THEN "anthropic"
    ELSE IF Contains(Str("ai21"), mdl) THEN "ai21"
    ELSE IF Contains(Str("cohere"), mdl) THEN "cohere"
    ELSE IF Contains(Str("mistral"), mdl) THEN "mistral"
    ELSE "unknown"

ExtractFamily(mdl) ==
    IF Contains(Str("amazon"), mdl) THEN "amazon"
    ELSE IF Contains(Str("anthropic"), mdl) THEN "anthropic"
    ELSE IF Contains(Str("ai21"), mdl) THEN "ai21"
    ELSE IF Contains(Str("cohere"), mdl) THEN "cohere"
    ELSE IF Contains(Str("meta"), mdl) THEN "meta"
    ELSE IF Contains(Str("mistral"), mdl) THEN "mistral"
    ELSE "unknown"

\* the chain of _stream_response compares the whole of model_provider
StreamFamily(model_provider) ==
    IF model_provider = Str("anthropic") THEN "anthropic"
    ELSE IF model_provider = Str("mistral") THEN "mistral"
    ELSE IF model_provider = Str("cohere") THEN "cohere"
    ELSE IF model_provider = Str("meta") THEN "meta"
    ELSE "default"

(***************************************************************************)
(* _format_message.  fetch is what requests.get(image_url) followed by     *)
(* raise_for_status() does when the Anthropic branch reaches it.           *)
(***************************************************************************)
DefaultMaxTokens == 2048
DefaultTemperature == 5     \* 0.5, in tenths

FetchOk(bytes)  == [status |-> "ok", content |-> bytes]
FetchFailed     == [status |-> "RequestException", content |-> <<>>]
FetchCrashed    == [status |-> "Exception", content |-> <<>>]
NoFetch         == [status |-> "none", content |-> <<>>]

User      == Str("user")
Assistant == Str("assistant")

AmazonPrompt(msgs) ==
    Concat([i \in 1..Len(msgs) |->
               IF msgs[i].role = User THEN msgs[i].content \o Str(" ") ELSE <<>>])

RolePrompt(msgs) ==
    Concat([i \in 1..Len(msgs) |->
               msgs[i].role \o Str(": ") \o msgs[i].content \o Str("\n")])

MistralPrompt(msgs) ==
    Concat([i \in 1..Len(msgs) |->
               CASE msgs[i].role = User ->
                      Str("[INST] ") \o msgs[i].content \o Str(" [/INST]")
                 [] msgs[i].role = Assistant -> msgs[i].content
                 [] OTHER -> <<>>])

\* ImageFetchAttempted without its test that messages is not empty
ImageFetchAttemptedNoGuard(msgs, bdy) ==
    Truthy(DictGet(bdy, Str("image_url"), PyNone).v)

\* the condition of line 155
ImageFetchAttempted(msgs, bdy) ==
    /\ msgs # <<>>
    /\ msgs[Len(msgs)].role = User
    /\ Truthy(DictGet(bdy, Str("image_url"), PyNone).v)

ImageBlock(bytes) ==
    PyDict(<< <<Str("type"), PyStr(Str("image"))>>,
              <<Str("source"),
                PyDict(<< <<Str("type"), PyStr(Str("base64"))>>,
                          <<Str("media_type"), PyStr(Str("image/jpeg"))>>,
                          <<Str("data"), PyStr(b64encode(bytes))>> >>)>> >>)

TextBlock(text) ==
    PyDict(<< <<Str("type"), PyStr(Str("text"))>>, <<Str("text"), PyStr(text)>> >>)

\* InitialContent that fetches whenever called, whoever spoke last
InitialContentUnconditional(msgs, bdy, fetch) ==
    IF fetch.status = "ok" THEN <<ImageBlock(fetch.content)>> ELSE <<>>

\* content after lines 154-166
InitialContent(msgs, bdy, fetch) ==
    IF ImageFetchAttempted(msgs, bdy) /\ fetch.status = "ok"
    THEN <<ImageBlock(fetch.content)>>
    ELSE <<>>

\* The loop of lines 170-175.  content is ONE list object: a user entry of
\* anthropic_messages holds a reference to it (shared |-> TRUE), not a copy.
RECURSIVE AnthropicLoop(_, _, _)
AnthropicLoop(msgs, content, out) ==
    IF msgs = <<>> THEN [content |-> content, out |-> out]
    ELSE LET m == Head(msgs) IN
         CASE m.role = User ->
                AnthropicLoop(Tail(msgs), Append(content, TextBlock(m.content)),
                              Append(out, [role |-> User, shared |-> TRUE,
                                           text |-> <<>>]))
           [] m.role = Assistant ->
                AnthropicLoop(Tail(msgs), content,
                              Append(out, [role |-> Assistant, shared |-> FALSE,
                                           text |-> m.content]))
           [] OTHER -> AnthropicLoop(Tail(msgs), content, out)

\* anthropic_messages as json.dumps sees it: every reference to content
\* shows the list as it is when the loop has ended
AnthropicMessages(msgs, bdy, fetch) ==
    LET r == AnthropicLoop(msgs, InitialContent(msgs, bdy, fetch), <<>>) IN
    [i \in 1..Len(r.out) |->
        PyDict(<< <<Str("role"), PyStr(r.out[i].role)>>,
                  <<Str("content"), IF r.out[i].shared THEN PyList(r.content)
                                    ELSE PyStr(r.out[i].text)>> >>)]

\* the document of lines 177-182
AnthropicRequest(max_tokens, temperature, anthropic_messages) ==
    PyDict(<< <<Str("anthropic_version"), PyStr(Str("bedrock-2023-05-31"))>>,
              <<Str("max_tokens"), max_tokens>>,
              <<Str("messages"), PyList(anthropic_messages)>>,
              <<Str("temperature"), temperature>> >>)

\* the three documents of a prompt, max_tokens under the key each family uses
PromptFirst(prompt, temperature, key, max_tokens) ==
    PyDict(<< <<Str("prompt"), PyStr(prompt)>>,
              <<Str("temperature"), temperature>>,
              <<key, max_tokens>> >>)

_format_message(mdl, msgs, bdy, fetch) ==
    LET got_max_tokens  == DictGet(bdy, Str("max_tokens"), PyInt(DefaultMaxTokens))
        got_temperature == DictGet(bdy, Str("temperature"), PyFloat(DefaultTemperature))
        max_tokens  == got_max_tokens.v
        temperature == got_temperature.v
        fam         == FormatFamily(mdl)
    IN
    IF Raised(got_max_tokens) THEN got_max_tokens
    ELSE IF Raised(got_temperature) THEN got_temperature
    ELSE
    CASE fam = "amazon" ->
           Ret(PyStr(json_dumps(PyDict(<<
               <<Str("inputText"), PyStr(AmazonPrompt(msgs))>>,
               <<Str("textGenerationConfig"), PyDict(<<
                   <<Str("maxTokenCount"), max_tokens>>,
                   <<Str("stopSequences"), PyList(<<>>)>>,
                   <<Str("temperature"), temperature>> >>)>> >>))))
      [] fam = "anthropic" ->
           IF ImageFetchAttempted(msgs, bdy) /\ fetch.status = "Exception"
           THEN Raise("Exception", Str("image fetch"))
           ELSE Ret(PyStr(json_dumps(AnthropicRequest(max_tokens, temperature,
                                         AnthropicMessages(msgs, bdy, fetch)))))
      [] fam = "ai21" ->
           Ret(PyStr(json_dumps(PromptFirst(RolePrompt(msgs), temperature,
                                            Str("maxTokens"), max_tokens))))
      [] fam = "cohere" ->
           Ret(PyStr(json_dumps(PromptFirst(RolePrompt(msgs), temperature,
                                            Str("max_tokens"), max_tokens))))
      [] fam = "meta" ->
           Ret(PyStr(json_dumps(PromptFirst(RolePrompt(msgs), temperature,
                                            Str("max_gen_len"), max_tokens))))
      [] fam = "mistral" ->
           Ret(PyStr(json_dumps(PyDict(<<
               <<Str("prompt"), PyStr(MistralPrompt(msgs))>>,
               <<Str("max_tokens"), max_tokens>>,
               <<Str("temperature"), temperature>> >>))))
      [] OTHER -> Ret(PyStr(<<>>))

\* does this call of _format_message reach requests.get?
FetchReached(mdl, msgs, bdy) ==
    /\ bdy.t = "dict"
    /\ FormatFamily(mdl) = "anthropic"
    /\ ImageFetchAttempted(msgs, bdy)

(***************************************************************************)
(* _extract_output.                                                        *)
(***************************************************************************)
\* r[k], r[0] and r.get(k, default) on the outcome r of the expression before
\* them: a subscript is evaluated only when what precedes it did not raise
SubKey(r, k) == IF Raised(r) THEN r ELSE GetItemKey(r.v, Str(k))
Sub0(r)      == IF Raised(r) THEN r ELSE GetItem0(r.v)
GetOr(r, k, default) == IF Raised(r) THEN r ELSE DictGet(r.v, Str(k), default)

_extract_output(doc, mdl) ==
    LET fam == ExtractFamily(mdl) IN
    CASE fam = "amazon"    -> SubKey(Sub0(SubKey(Ret(doc), "results")), "outputText")
      [] fam = "anthropic" -> SubKey(Sub0(SubKey(Ret(doc), "content")), "text")
      [] fam = "ai21"      -> GetOr(GetOr(Sub0(GetOr(Ret(doc), "completions", PyNone)),
                                          "data", PyNone),
                                    "text", PyNone)
      [] fam = "cohere"    -> SubKey(Sub0(SubKey(Ret(doc), "generations")), "text")
      [] fam = "meta"      -> SubKey(Ret(doc), "generation")
      [] fam = "mistral"   -> SubKey(Sub0(SubKey(Ret(doc), "outputs")), "text")
      [] OTHER -> Ret(PyStr(<<>>))

(***************************************************************************)
(* _stream_response: the body of its for loop on one event, giving the     *)
(* value yielded or the exception that ends the generator.                 *)
(***************************************************************************)
\* an event of the stream: a chunk event carries bytes, any other event
\* (an exception event of the service) has no "chunk" key
ChunkEvent(b) == [haschunk |-> TRUE, bytes |-> b]
OtherEvent    == [haschunk |-> FALSE, bytes |-> <<>>]

\* event["chunk"]["bytes"]
EventBytes(ev) ==
    IF ev.haschunk THEN Ret(ev.bytes) ELSE Raise("KeyError", Str("'chunk'"))

\* json.loads(event["chunk"]["bytes"]): the bytes go to json.loads as they are
EventLoads(ev) ==
    IF Raised(EventBytes(ev)) THEN EventBytes(ev) ELSE json_loads_bytes(EventBytes(ev).v)

\* EventDecode that parses the chunk as JSON, as the listed providers do
EventDecodeAsJson(ev) ==
    IF Raised(EventBytes(ev)) THEN EventBytes(ev) ELSE json_loads_bytes(EventBytes(ev).v)

\* event["chunk"]["bytes"].decode("utf-8")
EventDecode(ev) ==
    IF Raised(EventBytes(ev)) THEN EventBytes(ev) ELSE bytes_decode(EventBytes(ev).v)

\* json.loads(event["chunk"]["bytes"].decode("utf-8"))
EventDecodeLoads(ev) ==
    IF Raised(EventDecode(ev)) THEN EventDecode(ev) ELSE json_loads(EventDecode(ev).v.s)

\* MistralLine with "in" where the code has "=="
MistralLineContains(line) ==
    IF line.t = "str" /\ Contains(Str("\n"), line.s) THEN PyStr(<<>>) ELSE line

\* lines 254-257
MistralLine(line) == IF line = PyStr(Str("\n")) THEN PyStr(<<>>) ELSE line

\* lines 254-257 on the outcome of line 253
MistralYield(line) == IF Raised(line) THEN line ELSE Ret(MistralLine(line.v))

StreamYield(model_provider, ev) ==
    LET fam == StreamFamily(model_provider) IN
    CASE fam = "anthropic" -> GetOr(EventLoads(ev), "completion", PyStr(<<>>))
      [] fam = "mistral" ->
           MistralYield(GetOr(Sub0(GetOr(EventDecodeLoads(ev), "outputs",
                                         PyList(<<PyDict(<<>>)>>))),
                              "text", PyStr(<<>>)))
      [] fam = "cohere" -> GetOr(EventLoads(ev), "text", PyStr(<<>>))
      [] fam = "meta"   -> GetOr(EventDecodeLoads(ev), "generation", PyStr(<<>>))
      [] OTHER -> EventDecode(ev)

(***************************************************************************)
(* The inputs of the model.                                                *)
(***************************************************************************)
SeqsUpTo(S, n) == UNION {[1..k -> S] : k \in 0..n}

\* one identifier per family, one of no family, two that hold two markers
RepModels == {Str("amazon.titan-text-express-v1"), Str("anthropic.claude-3-sonnet-v1:0"),
              Str("ai21.j2-mid-v1"), Str("cohere.command-text-v14"),
              Str("meta.llama3-8b-instruct-v1:0"), Str("mistral.mistral-7b-instruct-v0:2"),
              Str("stability.sd-xl")}
MultiModels == {Str("meta.anthropic-x"), Str("mistral.amazon")}

\* identifiers put together from fragments, so that a marker can sit anywhere,
\* be cut in two ("met" "a"), differ in case, or share the string with another
RECURSIVE IdsOfParts(_)
IdsOfParts(n) ==
    IF n = 0 THEN {<<>>}
    ELSE {p \o f : p \in IdsOfParts(n - 1),
                   f \in {Str("amazon"), Str("anthropic"), Str("ai21"), Str("cohere"),
                          Str("meta"), Str("mistral"), Str("."), Str("Meta"),
                          Str("met"), Str("a")}}
ModelIds == UNION {IdsOfParts(n) : n \in 0..MaxParts}

Turn(role, content) == [role |-> Str(role), content |-> Str(content)]
\* two user turns that differ, an assistant turn (with characters json.dumps
\* escapes), and a turn of a role that only some branches copy
Turns == {Turn("user", "hi"),
          Turn("user", "there"),
          [role |-> Assistant, content |-> Str("caf") \o <<233, 9>>],
          Turn("system", "be brief")}

NoBody    == PyDict(<<>>)
ImageUrl  == Str("http://host/cat.jpg")
Bodies == {NoBody,
           PyDict(<< <<Str("max_tokens"), PyInt(100)>>,
                     <<Str("temperature"), PyFloat(9)>>,
                     <<Str("image_url"), PyStr(<<>>)>> >>),
           PyDict(<< <<Str("image_url"), PyStr(ImageUrl)>> >>)}

FetchOutcomes == {FetchOk(<<255, 216, 255>>), FetchOk(<<255, 216>>),
                  FetchFailed, FetchCrashed}

\* response documents: each family's path, whole and cut short at every step
Doc1(k, v) == PyDict(<< <<Str(k), v>> >>)
Ok == PyStr(Str("ok"))
Docs ==
    UNION {{Doc1(p[1], PyList(<<Doc1(p[2], Ok)>>)),
            Doc1(p[1], PyList(<<PyDict(<<>>)>>)),
            Doc1(p[1], PyList(<<>>))} :
           p \in {<<"results", "outputText">>, <<"content", "text">>,
                  <<"generations", "text">>, <<"outputs", "text">>}}
    \cup {Doc1("completions", PyList(<<Doc1("data", Doc1("text", Ok))>>)),
          Doc1("completions", PyList(<<Doc1("data", PyDict(<<>>))>>)),
          Doc1("completions", PyList(<<PyDict(<<>>)>>)),
          Doc1("completions", PyList(<<>>)),
          Doc1("generation", Ok),
          PyDict(<<>>)}

\* bytes as the transport delivers them: the JSON text of a value in UTF-8,
\* the same text in UTF-16 behind a byte order mark, a text that is not
\* JSON, bytes that are no text in any encoding json.loads detects
JsonBytes(v)   == str_encode(json_dumps(v)).v
Utf16Bytes(v)  == <<255, 254>> \o Concat([i \in 1..Len(json_dumps(v)) |->
                                            <<json_dumps(v)[i], 0>>])
TextBytes(lit) == str_encode(Str(lit)).v

\* the events a stream of each provider can deliver
Providers == {Str("amazon"), Str("anthropic"), Str("ai21"), Str("cohere"), Str("meta"),
              Str("mistral"), Str("stability")}
MistralEvent(text) ==
    ChunkEvent(JsonBytes(Doc1("outputs", PyList(<<Doc1("text", PyStr(Str(text)))>>))))
Said(k, text) == Doc1(k, PyStr(Str(text)))
EventsFor(p) ==
    CASE p = Str("anthropic") ->
           {ChunkEvent(JsonBytes(Said("completion", "Hi"))),
            ChunkEvent(Utf16Bytes(Said("completion", "there"))),
            ChunkEvent(JsonBytes(PyDict(<<>>))),
            ChunkEvent(JsonBytes(PyList(<<>>))),
            ChunkEvent(TextBytes("oops"))}
      [] p = Str("mistral") ->
           {MistralEvent("\n"), MistralEvent("a\nb"), MistralEvent("Hi"),
            ChunkEvent(JsonBytes(Doc1("outputs", PyList(<<>>)))),
            ChunkEvent(TextBytes("{\"outputs\""))}
      [] p = Str("cohere") ->
           {ChunkEvent(JsonBytes(Said("text", "Hi"))),
            ChunkEvent(JsonBytes(Said("text", "there"))),
            ChunkEvent(TextBytes("oops")),
            ChunkEvent(<<255>>)}
      [] p = Str("meta") ->
           {ChunkEvent(JsonBytes(Said("generation", "Hi"))),
            ChunkEvent(JsonBytes(Said("generation", "there"))),
            ChunkEvent(Utf16Bytes(Said("generation", "Hi"))),
            OtherEvent}
      [] OTHER ->
           {ChunkEvent(TextBytes("Hi")),
            ChunkEvent(JsonBytes(Said("completion", "there"))),
            ChunkEvent(<<255>>),
            OtherEvent}

\* what runtime_client.invoke_model can do
TransportOutcomes ==
    {[status |-> "ClientError", body |-> <<>>]}
    \cup {[status |-> "ok", body |-> JsonBytes(d)] : d \in Docs}
    \cup {[status |-> "ok", body |-> Utf16Bytes(Doc1("generation", Ok))],
          [status |-> "ok", body |-> TextBytes("oops")]}

NoResponse == [status |-> "none", body |-> <<>>]

(***************************************************************************)
(* Init: the caller picks a method and its arguments.                      *)
(***************************************************************************)
Idle ==
    /\ calls = <<>> /\ fetches = <<>>
    /\ gen = "none" /\ taken = 0 /\ requested = 0 /\ deltas = <<>>
    /\ pc = "none" /\ ret = Ret(PyNone)

InitFormat ==
    /\ op = "format"
    /\ \/ /\ model \in RepModels
          /\ messages \in SeqsUpTo(Turns, MaxTurns)
          /\ body \in Bodies
       \/ /\ model \in ModelIds
          /\ messages = <<Turn("user", "hi")>>
          /\ body = NoBody
    /\ jsondata = PyNone /\ response = NoResponse
    /\ Idle

InitExtract ==
    /\ op = "extract"
    /\ \/ /\ model \in RepModels
          /\ jsondata \in Docs
       \/ /\ model \in ModelIds
          /\ jsondata \in {PyDict(<<>>), Doc1("generation", Ok)}
    /\ messages = <<>> /\ body = NoBody /\ response = NoResponse
    /\ Idle

InitStream ==
    /\ op = "stream"
    /\ model \in Providers
    /\ \E evs \in SeqsUpTo(EventsFor(model), MaxEvents) :
          response = [status |-> "stream", body |-> evs]
    /\ messages = <<>> /\ body = NoBody /\ jsondata = PyNone
    /\ calls = <<>> /\ fetches = <<>>
    /\ gen = "created" /\ taken = 0 /\ requested = 0 /\ deltas = <<>>
    /\ pc = "none" /\ ret = Ret(PyNone)

InitPipe ==
    /\ op = "pipe"
    /\ model \in RepModels \cup MultiModels
    /\ messages \in SeqsUpTo(Turns, MaxPipeTurns)
    /\ body \in {NoBody, PyDict(<< <<Str("image_url"), PyStr(ImageUrl)>> >>)}
    /\ jsondata = PyNone /\ response = NoResponse
    /\ calls = <<>> /\ fetches = <<>>
    /\ gen = "none" /\ taken = 0 /\ requested = 0 /\ deltas = <<>>
    /\ pc = "format" /\ ret = Ret(PyNone)

Init == InitFormat \/ InitExtract \/ InitStream \/ InitPipe

(***************************************************************************)
(* Actions.                                                                *)
(***************************************************************************)
Call(fn, branch, out) == [fn |-> fn, branch |-> branch, out |-> out]

\* what a call's fetch outcome amounts to: nothing when requests.get is not reached
Effective(mdl, msgs, bdy, f) == IF FetchReached(mdl, msgs, bdy) THEN f ELSE NoFetch

\* a call of _format_message(model, messages, body)
Format ==
    /\ op = "format"
    /\ Len(calls) < MaxCalls
    /\ \E f \in FetchOutcomes :
         /\ calls' = Append(calls, Call("_format_message", FormatFamily(model),
                                        _format_message(model, messages, body, f)))
         /\ fetches' = Append(fetches, Effective(model, messages, body, f))
    /\ UNCHANGED <<op, model, messages, body, jsondata, response,
                   gen, taken, requested, deltas, pc, ret>>

\* a call of _extract_output(jsondata, model)
Extract ==
    /\ op = "extract"
    /\ calls = <<>>
    /\ calls' = <<Call("_extract_output", ExtractFamily(model),
                       _extract_output(jsondata, model))>>
    /\ UNCHANGED <<op, model, messages, body, jsondata, response, fetches,
                   gen, taken, requested, deltas, pc, ret>>

\* the body of the for loop has run on an event with the outcome r: the
\* generator is suspended at its yield, or ended by the exception
Yielded(r) ==
    /\ calls' = Append(calls, Call("_stream_response", StreamFamily(model), r))
    /\ IF Raised(r)
       THEN gen' = "raised" /\ UNCHANGED deltas
       ELSE gen' = "suspended" /\ deltas' = Append(deltas, r.v)

\* StreamNext that drains response["body"] before its first yield
StreamNextEager ==
    /\ op = "stream"
    /\ gen \in {"created", "suspended"}
    /\ requested' = requested + 1
    /\ IF Len(deltas) = Len(response.body)
       THEN /\ gen' = "exhausted"
            /\ UNCHANGED <<taken, deltas, calls>>
       ELSE /\ taken' = Len(response.body)
            /\ Yielded(StreamYield(model, response.body[Len(deltas) + 1]))
    /\ UNCHANGED <<op, model, messages, body, jsondata, response, fetches, pc, ret>>

\* next() on the generator _stream_response(response, model) returned: it runs
\* to its next yield, taking one event from response["body"] on the way
StreamNext ==
    /\ op = "stream"
    /\ gen \in {"created", "suspended"}
    /\ requested' = requested + 1
    /\ IF taken = Len(response.body)
       THEN /\ gen' = "exhausted"
            /\ UNCHANGED <<taken, deltas, calls>>
       ELSE /\ taken' = taken + 1
            /\ Yielded(StreamYield(model, response.body[taken + 1]))
    /\ UNCHANGED <<op, model, messages, body, jsondata, response, fetches, pc, ret>>

\* the consumer stops pulling: close() on the generator
StreamClose ==
    /\ op = "stream"
    /\ gen \in {"created", "suspended"}
    /\ gen' = "closed"
    /\ UNCHANGED <<op, model, messages, body, jsondata, response, calls, fetches,
                   taken, requested, deltas, pc, ret>>

\* pipe without its try/except: the exception reaches the caller
PipePropagate(r) == r

\* the except clause of pipe: the exception becomes the returned text
PipeExcept(r) == Ret(PyStr(Str("An error occurred: ") \o r.msg))

\* a step of pipe has had the outcome r: pipe goes on at next, or returns
\* from its except clause
Stepped(fn, branch, r, next) ==
    /\ calls' = Append(calls, Call(fn, branch, r))
    /\ IF Raised(r)
       THEN pc' = "done" /\ ret' = PipeExcept(r)
       ELSE pc' = next /\ UNCHANGED ret

\* pipe, line 106
PipeFormat ==
    /\ op = "pipe" /\ pc = "format"
    /\ \E f \in FetchOutcomes :
         /\ Stepped("_format_message", FormatFamily(model),
                    _format_message(model, messages, body, f), "invoke")
         /\ fetches' = Append(fetches, Effective(model, messages, body, f))
    /\ UNCHANGED <<op, model, messages, body, jsondata, response,
                   gen, taken, requested, deltas>>

\* pipe, lines 120-125: payload.encode("utf-8"), then the call of the service
Invoked(encoded, o) ==
    /\ response' = IF Raised(encoded) THEN response ELSE o
    /\ Stepped("invoke_model", "",
               IF Raised(encoded) THEN encoded
               ELSE IF o.status = "ok" THEN Ret(PyNone)
               ELSE Raise("ClientError",
                          Str("An error occurred (ValidationException) when calling the InvokeModel operation")),
               "decode")
PipeInvoke ==
    /\ op = "pipe" /\ pc = "invoke"
    /\ \E o \in TransportOutcomes : Invoked(str_encode(calls[Len(calls)].out.v.s), o)
    /\ UNCHANGED <<op, model, messages, body, jsondata, fetches,
                   gen, taken, requested, deltas>>

\* pipe, lines 126-127: the bytes read go to json.loads as they are
\* line 127: pipe returns what _extract_output returned, or from its except
\* clause
Extracted(r) ==
    /\ calls' = Append(calls, Call("_extract_output", ExtractFamily(model), r))
    /\ ret' = IF Raised(r) THEN PipeExcept(r) ELSE r
Loaded(parsed) ==
    IF Raised(parsed)
    THEN /\ calls' = Append(calls, Call("json.loads", "", parsed))
         /\ ret' = PipeExcept(parsed)
         /\ UNCHANGED jsondata
    ELSE /\ jsondata' = parsed.v
         /\ Extracted(_extract_output(parsed.v, model))
PipeDecode ==
    /\ op = "pipe" /\ pc = "decode"
    /\ Loaded(json_loads_bytes(response.body))
    /\ pc' = "done"
    /\ UNCHANGED <<op, model, messages, body, response, fetches,
                   gen, taken, requested, deltas>>

Next == Format \/ Extract \/ StreamNext \/ StreamClose
        \/ PipeFormat \/ PipeInvoke \/ PipeDecode

Spec == Init /\ [][Next]_vars

(***************************************************************************)
(* The claims.                                                             *)
(***************************************************************************)
FormatCalls  == {i \in 1..Len(calls) : calls[i].fn = "_format_message"}
ExtractCalls == {i \in 1..Len(calls) : calls[i].fn = "_extract_output"}
IsPrefixOf(p, str) == Len(str) >= Len(p) /\ SubSeq(str, 1, Len(p)) = p
IsSuffixOf(p, str) == Len(str) >= Len(p) /\ SubSeq(str, Len(str) - Len(p) + 1, Len(str)) = p

\* the rule the specification states: the first marker, in this order, that
\* the identifier contains
Markers == <<"amazon", "anthropic", "ai21", "cohere", "meta", "mistral">>
MarkersIn(mdl) == {i \in 1..Len(Markers) : Contains(Str(Markers[i]), mdl)}
Classify(mdl) ==
    IF MarkersIn(mdl) = {} THEN "unknown"
    ELSE Markers[CHOOSE i \in MarkersIn(mdl) : \A j \in MarkersIn(mdl) : i <= j]

\* an event whose decoding fails, and what a stream delivers per the
\* decoding table of the specification: the field of the provider in the
\* JSON document of the chunk, the text of the chunk for an unlisted provider
Malformed(p, ev) == Raised(StreamYield(p, ev))
TableField(p) ==
    CASE p = Str("anthropic") -> Str("completion")
      [] p = Str("cohere") -> Str("text")
      [] OTHER -> Str("generation")
ChunkDoc(ev)  == json_loads_bytes(ev.bytes).v
ChunkText(ev) == bytes_decode(ev.bytes).v.s
MistralText(ev) == Lookup(Lookup(ChunkDoc(ev), Str("outputs")).l[1], Str("text"))
TableDelta(p, ev) ==
    CASE p \in {Str("anthropic"), Str("cohere"), Str("meta")} ->
           IF HasKey(ChunkDoc(ev), TableField(p))
           THEN Lookup(ChunkDoc(ev), TableField(p)) ELSE PyStr(<<>>)
      [] p = Str("mistral") ->
           IF MistralText(ev) = PyStr(Str("\n")) THEN PyStr(<<>>) ELSE MistralText(ev)
      [] OTHER -> PyStr(ChunkText(ev))
Events == response.body

\* ---- C1 -------------------------------------------------------------------
RECURSIVE SkippingDeltas(_, _)
SkippingDeltas(p, evs) ==
    IF evs = <<>> THEN <<>>
    ELSE (IF Malformed(p, Head(evs)) THEN <<>> ELSE <<TableDelta(p, Head(evs))>>)
         \o SkippingDeltas(p, Tail(evs))
\* C1 (as stated): a malformed event does not end the stream; when the
\* generator has stopped by itself, the deltas delivered are those of all
\* the well-formed events of the source, in order, the malformed ones skipped.
C1_MalformedEventSkipped ==
    (op = "stream" /\ gen \in {"exhausted", "raised"})
        => deltas = SkippingDeltas(model, Events)

\* ---- C2 -------------------------------------------------------------------
LeafStr(v, k) == v.t = "dict" /\ HasKey(v, Str(k)) /\ Lookup(v, Str(k)).t = "str"
FirstOf(doc, top) ==
    doc.t = "dict" /\ HasKey(doc, Str(top)) /\ Lookup(doc, Str(top)).t = "list"
    /\ Len(Lookup(doc, Str(top)).l) > 0
First(doc, top) == Lookup(doc, Str(top)).l[1]
PathPresent(fam, doc) ==
    CASE fam = "amazon"    -> FirstOf(doc, "results")
                              /\ LeafStr(First(doc, "results"), "outputText")
      [] fam = "anthropic" -> FirstOf(doc, "content")
                              /\ LeafStr(First(doc, "content"), "text")
      [] fam = "ai21"      -> FirstOf(doc, "completions")
                              /\ LET c == First(doc, "completions") IN
                                 c.t = "dict" /\ HasKey(c, Str("data"))
                                 /\ LeafStr(Lookup(c, Str("data")), "text")
      [] fam = "cohere"    -> FirstOf(doc, "generations")
                              /\ LeafStr(First(doc, "generations"), "text")
      [] fam = "meta"      -> LeafStr(doc, "generation")
      [] fam = "mistral"   -> FirstOf(doc, "outputs")
                              /\ LeafStr(First(doc, "outputs"), "text")
      [] OTHER -> TRUE
\* C2 (as stated): for a known family, a document in which an element of the
\* family's field path is missing makes _extract_output raise; it never
\* returns a value.
C2_BrokenPathRaises ==
    \A i \in ExtractCalls :
        (Classify(model) # "unknown" /\ ~PathPresent(Classify(model), jsondata))
            => Raised(calls[i].out)

\* ---- C3 -------------------------------------------------------------------
IsChatTurn(m) == m.role \in {User, Assistant}
PerTurnMessages(msgs, bdy, fetch) ==
    LET turns == SelectSeq(msgs, IsChatTurn) IN
    [j \in 1..Len(turns) |->
        IF turns[j].role = User
        THEN PyDict(<< <<Str("role"), PyStr(User)>>,
                       <<Str("content"), PyList(
                           (IF j = Len(turns) /\ ImageFetchAttempted(msgs, bdy)
                               /\ fetch.status = "ok"
                            THEN <<ImageBlock(fetch.content)>> ELSE <<>>)
                           \o <<TextBlock(turns[j].content)>>)>> >>)
        ELSE PyDict(<< <<Str("role"), PyStr(Assistant)>>,
                       <<Str("content"), PyStr(turns[j].content)>> >>)]
\* C3 (as stated): the Anthropic payload holds one message per user/assistant
\* turn in input order; a user turn's content list holds that turn's text
\* block alone, preceded by the image block only in the last turn and only
\* when that turn is the user's, image_url is set and the fetch succeeded.
C3_OwnContentPerTurn ==
    \A i \in FormatCalls :
        (calls[i].branch = "anthropic" /\ ~Raised(calls[i].out))
            => calls[i].out.v.s =
                 json_dumps(AnthropicRequest(
                     DictGet(body, Str("max_tokens"), PyInt(DefaultMaxTokens)).v,
                     DictGet(body, Str("temperature"), PyFloat(DefaultTemperature)).v,
                     PerTurnMessages(messages, body, fetches[i])))

\* ---- C4 -------------------------------------------------------------------
\* C4: the formatter and the decoder select the family by the same rule, the
\* first of the six markers, in priority order, that the identifier contains
\* (else unknown); an identifier holding exactly one marker gets that
\* marker's family; and within one pipe() both calls use the same family.
C4_SameFamilyRule ==
    LET family == Classify(model)
        found  == MarkersIn(model)
    IN
    /\ \A i \in FormatCalls \cup ExtractCalls :
          /\ calls[i].branch = family
          /\ \A k \in 1..Len(Markers) : found = {k} => calls[i].branch = Markers[k]
    /\ \A i \in FormatCalls : \A j \in ExtractCalls : calls[i].branch = calls[j].branch
C4_Witness ==
    /\ op = "pipe" /\ pc = "done" /\ model = Str("meta.anthropic-x")
    /\ FormatCalls # {} /\ ExtractCalls # {}
    /\ \A i \in FormatCalls \cup ExtractCalls : calls[i].branch = "anthropic"

\* ---- C5 -------------------------------------------------------------------
\* C5 (as stated): for an identifier of no known family nothing is produced
\* and nothing raises: the payload is empty, the decoded text is empty, and
\* the stream delivers no delta.
C5_UnknownYieldsNothing ==
    Classify(model) = "unknown" =>
        /\ \A i \in FormatCalls \cup ExtractCalls : calls[i].out = Ret(PyStr(<<>>))
        /\ op = "stream" => (deltas = <<>> /\ gen # "raised")
\* an event that carries chunk bytes that are UTF-8 text
HasText(ev) == ev.haschunk /\ ~Raised(bytes_decode(ev.bytes))
\* C5 (amended): for an identifier of no known family, _format_message returns
\* the empty payload and _extract_output the empty string, neither raising;
\* the stream of an unlisted provider is not empty: as long as the events
\* taken carry UTF-8 text the k-th delta is the text of the k-th event,
\* verbatim, and the deltas delivered are, in the order of the source, the
\* verbatim texts of events taken that carry such text.
C5_UnknownFormatsEmptyStreamsVerbatim ==
    Classify(model) = "unknown" =>
        /\ \A i \in FormatCalls \cup ExtractCalls : calls[i].out = Ret(PyStr(<<>>))
        /\ op = "stream" =>
             /\ \A k \in 1..taken :
                   (\A j \in 1..k : HasText(Events[j])) =>
                       k <= Len(deltas) /\ deltas[k] = PyStr(ChunkText(Events[k]))
             /\ \E f \in [1..Len(deltas) -> 1..taken] :
                   /\ \A k \in 1..Len(deltas) :
                         /\ HasText(Events[f[k]])
                         /\ deltas[k] = PyStr(ChunkText(Events[f[k]]))
                   /\ \A k \in 1..(Len(deltas) - 1) : f[k] < f[k + 1]
C5_Witness ==
    /\ op = "stream" /\ Classify(model) = "unknown"
    /\ taken = 3 /\ ~Events[3].haschunk
    /\ deltas = <<PyStr(Str("{\"completion\": \"there\"}")), PyStr(Str("Hi"))>>

\* ---- C6 -------------------------------------------------------------------
\* C6: the generator never takes more events than the consumer asked for, and
\* as long as the events taken were well-formed the k-th delta is the decoding
\* of the k-th event: one delta per event, in order.
C6_OrderedPullDriven ==
    op = "stream" =>
        /\ taken <= requested
        /\ Len(deltas) <= taken
        /\ \A k \in 1..taken :
              (\A j \in 1..k : ~Malformed(model, Events[j]))
                  => (k <= Len(deltas) /\ deltas[k] = TableDelta(model, Events[k]))
C6_Witness ==
    /\ op = "stream" /\ gen = "closed" /\ model = Str("anthropic")
    /\ Len(Events) = 3 /\ taken = 2 /\ requested = 2
    /\ deltas = <<PyStr(Str("there")), PyStr(Str("Hi"))>>
    /\ ~Malformed(model, Events[3])

\* ---- C7 -------------------------------------------------------------------
\* C7: a Mistral event whose text is exactly "\n" yields the empty string,
\* which is delivered as a delta of its own; any other text, one that holds a
\* newline among other characters included, is delivered unchanged; so the
\* deltas are as many as the well-formed events taken.
C7_MistralNewline ==
    (op = "stream" /\ model = Str("mistral")) =>
        /\ \A k \in 1..Len(deltas) :
              deltas[k] = IF MistralText(Events[k]).s = Str("\n") THEN PyStr(<<>>)
                          ELSE MistralText(Events[k])
        /\ (\A j \in 1..taken : ~Malformed(model, Events[j])) => Len(deltas) = taken
C7_Witness ==
    /\ op = "stream" /\ model = Str("mistral") /\ taken = 3
    /\ Events = <<MistralEvent("a\nb"), MistralEvent("\n"), MistralEvent("Hi")>>
    /\ deltas = <<PyStr(Str("a\nb")), PyStr(<<>>), PyStr(Str("Hi"))>>

\* ---- C8 -------------------------------------------------------------------
\* C8 (as stated): two calls of _format_message on the same arguments return
\* the same payload, whatever the image fetch does in each.
C8_SamePayloadWhateverFetch ==
    \A i, j \in FormatCalls : calls[i].out = calls[j].out
\* C8 (amended): two calls of _format_message on the same arguments return the
\* same payload provided the image fetch, where the call reaches it, does the
\* same in both; a call reaches it only for Anthropic with a last turn of the
\* user and a non-empty image_url.
C8_SamePayloadGivenSameFetch ==
    \A i, j \in FormatCalls :
        fetches[i] = fetches[j] => calls[i].out = calls[j].out
C8_Witness ==
    /\ op = "format" /\ Len(calls) = 2
    /\ fetches[1] = fetches[2] /\ fetches[1].status = "ok"
    /\ ~Raised(calls[1].out) /\ calls[1].out = calls[2].out
    /\ Contains(Str("image/jpeg"), calls[1].out.v.s)

\* ---- C9 -------------------------------------------------------------------
EmptyField(fam) ==
    CASE fam = "amazon" -> Str("{\"inputText\": \"\", ")
      [] fam = "anthropic" -> Str(", \"messages\": [], ")
      [] OTHER -> Str("{\"prompt\": \"\", ")
\* C9: on an empty message list every known family's formatter returns,
\* without raising and without fetching an image, a JSON object whose prompt
\* is the empty string (messages the empty list for Anthropic).
C9_EmptyTurnsAccepted ==
    \A i \in FormatCalls :
        (messages = <<>> /\ Classify(model) # "unknown") =>
            /\ ~Raised(calls[i].out)
            /\ fetches[i] = NoFetch
            /\ calls[i].out.v.t = "str"
            /\ IsPrefixOf(Str("{"), calls[i].out.v.s)
            /\ IsSuffixOf(Str("}"), calls[i].out.v.s)
            /\ Contains(EmptyField(Classify(model)), calls[i].out.v.s)
C9_Witness ==
    /\ op = "format" /\ messages = <<>> /\ Len(calls) = 2
    /\ Classify(model) = "anthropic" /\ HasKey(body, Str("image_url"))
    /\ Truthy(Lookup(body, Str("image_url")))
    /\ Contains(Str("\"messages\": []"), calls[2].out.v.s)

\* ---- C10 ------------------------------------------------------------------
PipeSteps(i) ==
    CASE i = 1 -> {"_format_message"}
      [] i = 2 -> {"invoke_model"}
      [] OTHER -> {"json.loads", "_extract_output"}
\* C10: pipe() runs format, invoke, decode in that order, stops at the first
\* step that raises, and always returns: what _extract_output returned when
\* no step raised, else a str that begins "An error occurred: " followed by
\* the text of the exception.
C10_PipeAlwaysReturns ==
    op = "pipe" =>
        /\ Len(calls) <= 3
        /\ \A i \in 1..Len(calls) : calls[i].fn \in PipeSteps(i)
        /\ \A i \in 1..(Len(calls) - 1) : ~Raised(calls[i].out)
        /\ pc = "done" =>
             LET last == calls[Len(calls)] IN
             /\ ~Raised(ret)
             /\ IF Raised(last.out)
                THEN /\ ret.v.t = "str"
                     /\ ret.v.s = Str("An error occurred: ") \o last.out.msg
                ELSE /\ last.fn = "_extract_output"
                     /\ ret.v = last.out.v
C10_Witness ==
    /\ op = "pipe" /\ pc = "done" /\ Len(calls) = 3
    /\ calls[3].fn = "_extract_output" /\ calls[3].out.exc = "IndexError"
    /\ ret = Ret(PyStr(Str("An error occurred: list index out of range")))

====
